---- MODULE Spec2Model ----
(***************************************************************************)
(* Model of backend/turbo_server.py: the work-order lifecycle (sequential  *)
(* numbering, finalize/unfinalize, delete with renumbering) and the        *)
(* inventory ledger (items, movements), the clients and the parts stock    *)
(* (part types, suppliers, parts, stock movements), over the document      *)
(* store `db`.                                                             *)
(*                                                                         *)
(* The specifications share the variables:                                 *)
(*   Spec           work-order requests executed one at a time (one        *)
(*                  action per handler, the whole handler in one step);    *)
(*   SpecLifecycle  the same without Update;                               *)
(*   SpecStatus     Update of the status, from every status;               *)
(*   SpecClients    client requests executed one at a time;                *)
(*   SpecInv        inventory requests executed one at a time;             *)
(*   SpecParts      parts-stock requests executed one at a time;           *)
(*   SpecRace       work-order requests interleaved between their          *)
(*                  database calls (one action per awaited call);          *)
(*   SpecInvRace    inventory movements interleaved likewise;              *)
(*   SpecPartsRace  stock movements and part deletes interleaved likewise. *)
(***************************************************************************)
EXTENDS Integers, Sequences, FiniteSets, TLC

VARIABLES
    clients,              \* db.clients: id -> document
    work_orders,          \* db.work_orders: id -> document
    uuids,                \* number of uuid4() identifiers handed out so far
    now,                  \* datetime.utcnow(), a logical clock
    resp,                 \* the last HTTP response: [op, id, status]
    inventory_items,      \* db.inventory_items: id -> document
    inventory_movements,  \* db.inventory_movements: documents in insertion order
    part_types,           \* db.part_types: id -> document
    suppliers,            \* db.suppliers: id -> document
    parts,                \* db.parts: id -> document
    stock_movements,      \* db.stock_movements: documents in insertion order
    reqs,                 \* requests in flight (SpecRace): process -> frame
    locked                \* history (Spec): ids whose Finalize succeeded with
                          \* no Unfinalize since

vars == <<clients, work_orders, uuids, now, resp,
          inventory_items, inventory_movements,
          part_types, suppliers, parts, stock_movements, reqs, locked>>

----------------------------------------------------------------------------
(* Bounds *)

MaxOrders == 3        \* work orders ever created
MaxClock == 5         \* ticks of the clock (requests that write)
MaxClients == 2       \* clients ever created
MaxSeqInput == 3      \* largest work_sequence an Update payload carries
MaxItems == 2         \* inventory items ever created
MaxQty == 5           \* largest quantity of a movement, largest initial stock
MaxInvClock == 4      \* ticks of the clock in the inventory specification
MaxProcs == 2         \* requests in flight at once
MaxRaceOrders == 3    \* work orders ever created in the interleaved specification
MaxRaceClock == 5     \* no request starts at or after this tick
MaxClientClock == 4   \* ticks of the clock in the client specification
MaxPartUuids == 4     \* part types, suppliers and parts ever created
MaxInvRaceClock == 4  \* no movement request starts at or after this tick
MaxPartRaceClock == 7 \* no parts request starts at or after this tick
MaxPartClock == 6     \* ticks of the clock in the parts specification

----------------------------------------------------------------------------
(* Optional[T]: None, or a value *)

None == <<>>
Some(v) == <<v>>
IsNone(o) == o = None
Val(o) == o[1]

(* WorkStatus(str, Enum) *)
WorkStatus ==
    {"DRAFT", "RECEIVED", "IN_PROGRESS", "QUOTED", "ACCEPTED", "REJECTED",
     "WORKING", "READY", "DELIVERED", "FINALIZED"}

(* HTTP status codes of the handlers *)
OK == 200
BadRequest == 400
NotFound == 404

----------------------------------------------------------------------------
(* f"{n:05d}": decimal rendering, zero-padded to width 5, sign included in  *)
(* the width.  A string is a sequence of one-character strings.             *)

DigitChar(d) == <<"0", "1", "2", "3", "4", "5", "6", "7", "8", "9">>[d + 1]

RECURSIVE DecStr(_)
DecStr(n) ==
    IF n < 10 THEN <<DigitChar(n)>>
    ELSE Append(DecStr(n \div 10), DigitChar(n % 10))

RECURSIVE ZeroFill(_, _)
ZeroFill(s, width) ==
    IF Len(s) >= width THEN s ELSE ZeroFill(<<"0">> \o s, width)

Format05d(n) ==
    IF n < 0 THEN <<"-">> \o ZeroFill(DecStr(-n), 4)
    ELSE ZeroFill(DecStr(n), 5)

----------------------------------------------------------------------------
(* Queries over db.work_orders *)

Max(S) == CHOOSE x \in S : \A y \in S : y <= x

(* the next number taken from the count of documents *)
get_next_sequence_number_Count(db) == Cardinality(DOMAIN db) + 1

(* get_next_sequence_number: find().sort("work_sequence", -1).limit(1) *)
get_next_sequence_number(db) ==
    IF DOMAIN db # {}
    THEN Max({db[i].work_sequence : i \in DOMAIN db}) + 1
    ELSE 1

(* to_list(1000) in recalculate_sequence_numbers *)
ToListLimit == 1000

(* the sort in descending order of created_at *)
Before_Descending(db, i, j) ==
    \/ db[i].created_at > db[j].created_at
    \/ db[i].created_at = db[j].created_at /\ i < j

(* find().sort("created_at", 1).to_list(1000): the ids in ascending         *)
(* created_at order (ties, which the clock never produces, by id).          *)
Before(db, i, j) ==
    \/ db[i].created_at < db[j].created_at
    \/ db[i].created_at = db[j].created_at /\ i < j

Position(db, i) == Cardinality({j \in DOMAIN db : Before(db, j, i)}) + 1

SortedByCreatedAt(db) == {i \in DOMAIN db : Position(db, i) <= ToListLimit}

(* a $set that leaves the printed number alone *)
Renumbered_KeepNumber(doc, index, t) ==
    [doc EXCEPT !.work_sequence = index,
                !.updated_at = t]

(* the $set of one iteration of the renumbering loop *)
Renumbered(doc, index, t) ==
    [doc EXCEPT !.work_sequence = index,
                !.work_number = Format05d(index),
                !.updated_at = t]

(* recalculate_sequence_numbers, the whole loop *)
recalculate_sequence_numbers(db, t) ==
    [i \in DOMAIN db |->
        IF i \in SortedByCreatedAt(db)
        THEN Renumbered(db[i], Position(db, i), t)
        ELSE db[i]]

(* a guard that never sees the flag *)
IsFinalized_Never(doc) == FALSE

(* work_order.get("is_finalized", False), the guard of delete and finalize *)
IsFinalized(doc) == doc.is_finalized

----------------------------------------------------------------------------
(* Document store helpers *)

Insert(db, id, doc) == [i \in DOMAIN db \cup {id} |-> IF i = id THEN doc ELSE db[i]]

Remove(db, id) == [i \in DOMAIN db \ {id} |-> db[i]]

Respond(op, id, status) == resp' = [op |-> op, id |-> id, status |-> status]

UnchangedParts == UNCHANGED <<part_types, suppliers, parts, stock_movements>>

UnchangedInventory ==
    /\ UNCHANGED <<inventory_items, inventory_movements>>
    /\ UnchangedParts

Unlocked == UNCHANGED locked

----------------------------------------------------------------------------
(* Clients *)

Phones == {"0711"}

(* The Client document: the natural key and the update stamp *)
NewClient(phone, t) == [phone |-> phone, updated_at |-> t]

(* POST /clients *)
create_client(phone) ==
    /\ IF \E c \in DOMAIN clients : clients[c].phone = phone
       THEN /\ Respond("create_client", 0, BadRequest)
            /\ UNCHANGED clients
       ELSE /\ Cardinality(DOMAIN clients) < MaxClients
            /\ clients' = Insert(clients, Cardinality(DOMAIN clients) + 1,
                                 NewClient(phone, now))
            /\ Respond("create_client", Cardinality(DOMAIN clients) + 1, OK)
    /\ UNCHANGED <<work_orders, uuids, now, reqs>>
    /\ UnchangedInventory
    /\ Unlocked

----------------------------------------------------------------------------
(* Work orders, one request at a time *)

(* The WorkOrder document built by create_work_order (work_number,          *)
(* work_sequence, status=DRAFT, model defaults): the fields the handlers    *)
(* read or write                                                            *)
NewWorkOrder(client_id, next_sequence, t) ==
    [work_number |-> Format05d(next_sequence),
     work_sequence |-> next_sequence,
     client_id |-> client_id,
     status |-> "DRAFT",
     is_finalized |-> FALSE,
     finalized_at |-> None,
     created_at |-> t,
     updated_at |-> t]

(* the insert without the client lookup *)
create_work_order_Unchecked(client_id) ==
    /\ uuids < MaxOrders
    /\ now < MaxClock
    /\ work_orders' =
           Insert(work_orders, uuids + 1,
                  NewWorkOrder(client_id,
                               get_next_sequence_number(work_orders), now))
    /\ uuids' = uuids + 1
    /\ now' = now + 1
    /\ Respond("create_work_order", uuids + 1, OK)
    /\ UNCHANGED <<clients, reqs>>
    /\ UnchangedInventory
    /\ Unlocked

(* POST /work-orders *)
create_work_order(client_id) ==
    /\ IF client_id \notin DOMAIN clients
       THEN /\ Respond("create_work_order", 0, BadRequest)
            /\ UNCHANGED <<work_orders, uuids, now>>
       ELSE /\ uuids < MaxOrders
            /\ now < MaxClock
            /\ work_orders' =
                   Insert(work_orders, uuids + 1,
                          NewWorkOrder(client_id,
                                       get_next_sequence_number(work_orders),
                                       now))
            /\ uuids' = uuids + 1
            /\ now' = now + 1
            /\ Respond("create_work_order", uuids + 1, OK)
    /\ UNCHANGED <<clients, reqs>>
    /\ UnchangedInventory
    /\ Unlocked

(* WorkOrderUpdate: the payload fields this model tracks; `status` stands   *)
(* for every descriptive field, all of which are merged the same way.       *)
UpdateFields == {"work_sequence", "status", "is_finalized", "finalized_at"}

(* an update_data that drops the status *)
update_data_NoStatus(payload) ==
    {k \in UpdateFields \ {"status"} : ~IsNone(payload[k])}

(* update_data = {k: v for k, v in work_order_update.dict().items()         *)
(*                if v is not None}                                         *)
update_data(payload) == {k \in UpdateFields : ~IsNone(payload[k])}

(* {"$set": update_data} with updated_at added; finalized_at is stored as   *)
(* an optional, the other fields as plain values                            *)
ApplySet(doc, payload, t) ==
    [k \in DOMAIN doc |->
        IF k = "updated_at" THEN t
        ELSE IF k \in update_data(payload)
             THEN (IF k = "finalized_at" THEN payload[k] ELSE Val(payload[k]))
             ELSE doc[k]]

(* PUT /work-orders/{id} *)
update_work_order(id, payload) ==
    /\ IF id \notin DOMAIN work_orders
       THEN /\ Respond("update_work_order", id, NotFound)
            /\ UNCHANGED <<work_orders, now>>
       ELSE /\ IF update_data(payload) # {}
               THEN /\ now < MaxClock
                    /\ work_orders' =
                           [work_orders EXCEPT
                               ![id] = ApplySet(work_orders[id], payload, now)]
                    /\ now' = now + 1
               ELSE UNCHANGED <<work_orders, now>>
            /\ Respond("update_work_order", id, OK)
    /\ UNCHANGED <<clients, uuids, reqs>>
    /\ UnchangedInventory
    /\ Unlocked

(* DELETE /work-orders/{id} *)
delete_work_order(id) ==
    /\ IF id \notin DOMAIN work_orders
       THEN /\ Respond("delete_work_order", id, NotFound)
            /\ UNCHANGED <<work_orders, now>>
       ELSE IF IsFinalized(work_orders[id])
       THEN /\ Respond("delete_work_order", id, BadRequest)
            /\ UNCHANGED <<work_orders, now>>
       ELSE /\ now < MaxClock
            /\ work_orders' =
                   recalculate_sequence_numbers(Remove(work_orders, id), now)
            /\ now' = now + 1
            /\ Respond("delete_work_order", id, OK)
    /\ UNCHANGED <<clients, uuids, reqs>>
    /\ UnchangedInventory
    /\ Unlocked

(* a finalize that leaves the status alone *)
Finalized_KeepStatus(doc, t) ==
    [doc EXCEPT !.is_finalized = TRUE,
                !.finalized_at = Some(t),
                !.updated_at = t]

(* the $set of finalize_work_order *)
Finalized(doc, t) ==
    [doc EXCEPT !.is_finalized = TRUE,
                !.finalized_at = Some(t),
                !.updated_at = t,
                !.status = "RECEIVED"]

(* POST /work-orders/{id}/finalize *)
finalize_work_order(id) ==
    /\ IF id \notin DOMAIN work_orders
       THEN /\ Respond("finalize_work_order", id, NotFound)
            /\ UNCHANGED <<work_orders, now, locked>>
       ELSE IF IsFinalized(work_orders[id])
       THEN /\ Respond("finalize_work_order", id, BadRequest)
            /\ UNCHANGED <<work_orders, now, locked>>
       ELSE /\ now < MaxClock
            /\ work_orders' =
                   [work_orders EXCEPT ![id] = Finalized(work_orders[id], now)]
            /\ now' = now + 1
            /\ Respond("finalize_work_order", id, OK)
            /\ locked' = locked \cup {id}
    /\ UNCHANGED <<clients, uuids, reqs>>
    /\ UnchangedInventory

(* an unfinalize that leaves the finalized_at stamp *)
Unfinalized_KeepStamp(doc, t) ==
    [doc EXCEPT !.is_finalized = FALSE,
                !.updated_at = t,
                !.status = "DRAFT"]

(* the $set of unfinalize_work_order *)
Unfinalized(doc, t) ==
    [doc EXCEPT !.is_finalized = FALSE,
                !.finalized_at = None,
                !.updated_at = t,
                !.status = "DRAFT"]

(* POST /work-orders/{id}/unfinalize *)
unfinalize_work_order(id) ==
    /\ IF id \notin DOMAIN work_orders
       THEN /\ Respond("unfinalize_work_order", id, NotFound)
            /\ UNCHANGED <<work_orders, now, locked>>
       ELSE /\ now < MaxClock
            /\ work_orders' =
                   [work_orders EXCEPT ![id] = Unfinalized(work_orders[id], now)]
            /\ now' = now + 1
            /\ Respond("unfinalize_work_order", id, OK)
            /\ locked' = locked \ {id}
    /\ UNCHANGED <<clients, uuids, reqs>>
    /\ UnchangedInventory

----------------------------------------------------------------------------
(* Inputs of the work-order requests *)

OrderIds == 1..MaxOrders
ClientRefs == 1..MaxClients

SeqInputs == {None, Some(0), Some(MaxSeqInput)}
StatusInputs == {None, Some("WORKING")}
FlagInputs == {None, Some(TRUE), Some(FALSE)}
StampInputs == {None, Some(now)}

Payloads ==
    [work_sequence : SeqInputs, status : StatusInputs,
     is_finalized : FlagInputs, finalized_at : StampInputs]

NoResponse == [op |-> "", id |-> 0, status |-> 0]
NoDocuments == [i \in {} |-> 0]

Init ==
    /\ clients = NoDocuments
    /\ work_orders = NoDocuments
    /\ uuids = 0
    /\ now = 1
    /\ resp = NoResponse
    /\ inventory_items = NoDocuments
    /\ inventory_movements = <<>>
    /\ part_types = NoDocuments
    /\ suppliers = NoDocuments
    /\ parts = NoDocuments
    /\ stock_movements = <<>>
    /\ reqs = NoDocuments
    /\ locked = {}

Next ==
    \/ \E phone \in Phones : create_client(phone)
    \/ \E c \in ClientRefs : create_work_order(c)
    \/ \E id \in OrderIds, payload \in Payloads : update_work_order(id, payload)
    \/ \E id \in OrderIds : delete_work_order(id)
    \/ \E id \in OrderIds : finalize_work_order(id)
    \/ \E id \in OrderIds : unfinalize_work_order(id)

Spec == Init /\ [][Next]_vars

(* The same requests without Update: create, delete, finalize, unfinalize *)
NextLifecycle ==
    \/ \E phone \in Phones : create_client(phone)
    \/ \E c \in ClientRefs : create_work_order(c)
    \/ \E id \in OrderIds : delete_work_order(id)
    \/ \E id \in OrderIds : finalize_work_order(id)
    \/ \E id \in OrderIds : unfinalize_work_order(id)

SpecLifecycle == Init /\ [][NextLifecycle]_vars

(* Update of the status alone, from every status. The store holds one      *)
(* client and one work order, created at tick 1, finalized at tick 2 or    *)
(* not, and put into status s by an Update at tick 3.                      *)
ExistingOrder(s, finalized) ==
    [NewWorkOrder(1, 1, 1) EXCEPT
        !.status = s,
        !.is_finalized = finalized,
        !.finalized_at = IF finalized THEN Some(2) ELSE None,
        !.updated_at = 3]

StatusPayload(status) ==
    [work_sequence |-> None, status |-> status,
     is_finalized |-> None, finalized_at |-> None]

StatusPayloads == {StatusPayload(None)} \cup {StatusPayload(Some(t)) : t \in WorkStatus}

InitStatus ==
    /\ clients = Insert(NoDocuments, 1, NewClient("0711", 1))
    /\ \E s \in WorkStatus, finalized \in BOOLEAN :
           /\ work_orders = Insert(NoDocuments, 1, ExistingOrder(s, finalized))
           /\ locked = IF finalized THEN {1} ELSE {}
    /\ uuids = 1
    /\ now = 4
    /\ resp = NoResponse
    /\ inventory_items = NoDocuments
    /\ inventory_movements = <<>>
    /\ part_types = NoDocuments
    /\ suppliers = NoDocuments
    /\ parts = NoDocuments
    /\ stock_movements = <<>>
    /\ reqs = NoDocuments

NextStatus ==
    \E id \in OrderIds, payload \in StatusPayloads : update_work_order(id, payload)

SpecStatus == InitStatus /\ [][NextStatus]_vars

----------------------------------------------------------------------------
(* Clients, one request at a time *)

UnchangedButClients ==
    /\ UNCHANGED <<work_orders, uuids, reqs>>
    /\ UnchangedInventory
    /\ Unlocked

(* PUT /clients/{id}; of ClientUpdate the model tracks `phone` *)
update_client(id, phone) ==
    /\ IF id \notin DOMAIN clients
       THEN /\ Respond("update_client", id, NotFound)
            /\ UNCHANGED <<clients, now>>
       ELSE /\ IF ~IsNone(phone)
               THEN /\ now < MaxClientClock
                    /\ clients' = [clients EXCEPT ![id].phone = Val(phone),
                                                  ![id].updated_at = now]
                    /\ now' = now + 1
               ELSE UNCHANGED <<clients, now>>
            /\ Respond("update_client", id, OK)
    /\ UnchangedButClients

ClientIds == 1..MaxClients
ClientPhones == {"0711", "0722"}
PhoneInputs == {None} \cup {Some(ph) : ph \in ClientPhones}

NextClients ==
    \/ \E phone \in ClientPhones : create_client(phone)
    \/ \E id \in ClientIds, phone \in PhoneInputs : update_client(id, phone)

SpecClients == Init /\ [][NextClients]_vars

----------------------------------------------------------------------------
(* Inventory ledger, one request at a time *)

UnchangedWorkOrders ==
    /\ UNCHANGED <<clients, work_orders, uuids, reqs, locked>>
    /\ UnchangedParts

(* The InventoryItem document built by create_inventory_item: the fields    *)
(* the handlers read or write (`code` is the natural key and stands for     *)
(* the descriptive fields)                                                  *)
NewInventoryItem(code, current_stock, t) ==
    [code |-> code,
     current_stock |-> current_stock,
     active |-> TRUE,
     created_at |-> t,
     updated_at |-> t]

(* POST /inventory/items *)
create_inventory_item(code, current_stock) ==
    /\ IF \E i \in DOMAIN inventory_items : inventory_items[i].code = code
       THEN /\ Respond("create_inventory_item", 0, BadRequest)
            /\ UNCHANGED <<inventory_items, now>>
       ELSE /\ Cardinality(DOMAIN inventory_items) < MaxItems
            /\ now < MaxInvClock
            /\ inventory_items' =
                   Insert(inventory_items,
                          Cardinality(DOMAIN inventory_items) + 1,
                          NewInventoryItem(code, current_stock, now))
            /\ now' = now + 1
            /\ Respond("create_inventory_item",
                       Cardinality(DOMAIN inventory_items) + 1, OK)
    /\ UNCHANGED inventory_movements
    /\ UnchangedWorkOrders

(* PUT /inventory/items/{id}; InventoryItemUpdate has no current_stock *)
update_inventory_item(id, code) ==
    /\ IF id \notin DOMAIN inventory_items
       THEN /\ Respond("update_inventory_item", id, NotFound)
            /\ UNCHANGED <<inventory_items, now>>
       ELSE /\ IF ~IsNone(code)
               THEN /\ now < MaxInvClock
                    /\ inventory_items' =
                           [inventory_items EXCEPT ![id].code = Val(code),
                                                   ![id].updated_at = now]
                    /\ now' = now + 1
               ELSE UNCHANGED <<inventory_items, now>>
            /\ Respond("update_inventory_item", id, OK)
    /\ UNCHANGED inventory_movements
    /\ UnchangedWorkOrders

(* a delete that also purges the item's movements *)
delete_inventory_item_Purging(id) ==
    /\ id \in DOMAIN inventory_items
    /\ now < MaxInvClock
    /\ inventory_items' =
           [inventory_items EXCEPT ![id].active = FALSE,
                                   ![id].updated_at = now]
    /\ inventory_movements' =
           SelectSeq(inventory_movements, LAMBDA m : m.item_id # id)
    /\ now' = now + 1
    /\ Respond("delete_inventory_item", id, OK)
    /\ UnchangedWorkOrders

(* DELETE /inventory/items/{id}: soft delete *)
delete_inventory_item(id) ==
    /\ IF id \notin DOMAIN inventory_items
       THEN /\ Respond("delete_inventory_item", id, NotFound)
            /\ UNCHANGED <<inventory_items, now>>
       ELSE /\ now < MaxInvClock
            /\ inventory_items' =
                   [inventory_items EXCEPT ![id].active = FALSE,
                                           ![id].updated_at = now]
            /\ now' = now + 1
            /\ Respond("delete_inventory_item", id, OK)
    /\ UNCHANGED inventory_movements
    /\ UnchangedWorkOrders

(* the quantity of an OUT left positive *)
SignedQuantity_Unsigned(movement_type, quantity) == quantity

(* if movement.movement_type == "OUT" and movement.quantity > 0:            *)
(*     movement.quantity = -movement.quantity                               *)
SignedQuantity(movement_type, quantity) ==
    IF movement_type = "OUT" /\ quantity > 0 THEN -quantity ELSE quantity

(* stock_after = stock_before + movement.quantity *)
StockAfter(stock_before, movement_type, quantity) ==
    stock_before + SignedQuantity(movement_type, quantity)

(* the check off by one: a stock of -1 passes *)
InsufficientStock_OffByOne(stock_after) == stock_after < -1

(* if stock_after < 0: raise HTTPException(status_code=400) *)
InsufficientStock(stock_after) == stock_after < 0

(* The InventoryMovement document; quantity is the signed quantity *)
NewInventoryMovement(item_id, movement_type, quantity, stock_before, t) ==
    [item_id |-> item_id,
     movement_type |-> movement_type,
     quantity |-> SignedQuantity(movement_type, quantity),
     stock_before |-> stock_before,
     stock_after |-> StockAfter(stock_before, movement_type, quantity),
     created_at |-> t]

(* POST /inventory/movements *)
create_inventory_movement(item_id, movement_type, quantity) ==
    /\ IF item_id \notin DOMAIN inventory_items
       THEN /\ Respond("create_inventory_movement", item_id, NotFound)
            /\ UNCHANGED <<inventory_items, inventory_movements, now>>
       ELSE LET stock_before == inventory_items[item_id].current_stock
                stock_after == StockAfter(stock_before, movement_type, quantity)
            IN  IF InsufficientStock(stock_after)
                THEN /\ Respond("create_inventory_movement", item_id, BadRequest)
                     /\ UNCHANGED <<inventory_items, inventory_movements, now>>
                ELSE /\ now < MaxInvClock
                     /\ inventory_movements' =
                            Append(inventory_movements,
                                   NewInventoryMovement(item_id, movement_type,
                                                        quantity, stock_before,
                                                        now))
                     /\ inventory_items' =
                            [inventory_items EXCEPT
                                ![item_id].current_stock = stock_after,
                                ![item_id].updated_at = now]
                     /\ now' = now + 1
                     /\ Respond("create_inventory_movement", item_id, OK)
    /\ UnchangedWorkOrders

(* Inputs of the inventory requests *)
ItemIds == 1..MaxItems
Codes == {"GEO-001", "ACT-001"}
CodeInputs == {None, Some("GEO-001")}
StockInputs == {-1, 0, MaxQty}
Quantities == {-1, 0, 1, MaxQty}
MovementTypes == {"IN", "OUT", "ADJUSTMENT"}

NextInv ==
    \/ \E code \in Codes, stock \in StockInputs :
           create_inventory_item(code, stock)
    \/ \E id \in ItemIds, code \in CodeInputs : update_inventory_item(id, code)
    \/ \E id \in ItemIds : delete_inventory_item(id)
    \/ \E id \in ItemIds, ty \in MovementTypes, q \in Quantities :
           create_inventory_movement(id, ty, q)

SpecInv == Init /\ [][NextInv]_vars

----------------------------------------------------------------------------
(* Parts stock: part types, suppliers, parts and stock movements. Their    *)
(* ids are uuid4() values, drawn from the counter `uuids`, so an id is     *)
(* never handed out twice.                                                 *)

UnchangedButParts ==
    UNCHANGED <<clients, work_orders, reqs, locked,
                inventory_items, inventory_movements>>

(* PartType and Supplier documents: name, created_at *)
NewNamed(name, t) == [name |-> name, created_at |-> t]

(* find_one({"name": name}) *)
ExistingName(db, name) == \E i \in DOMAIN db : db[i].name = name

(* POST /part-types *)
create_part_type(name) ==
    /\ IF ExistingName(part_types, name)
       THEN /\ Respond("create_part_type", 0, BadRequest)
            /\ UNCHANGED <<part_types, uuids, now>>
       ELSE /\ uuids < MaxPartUuids
            /\ now < MaxPartClock
            /\ now' = now + 1
            /\ part_types' = Insert(part_types, uuids + 1, NewNamed(name, now))
            /\ uuids' = uuids + 1
            /\ Respond("create_part_type", uuids + 1, OK)
    /\ UNCHANGED <<suppliers, parts, stock_movements>>
    /\ UnchangedButParts

(* PUT /part-types/{part_type_id}: the name is set without a lookup by name *)
update_part_type(part_type_id, name) ==
    /\ IF part_type_id \notin DOMAIN part_types
       THEN /\ Respond("update_part_type", part_type_id, NotFound)
            /\ UNCHANGED <<part_types, now>>
       ELSE /\ now < MaxPartClock
            /\ now' = now + 1
            /\ part_types' = [part_types EXCEPT ![part_type_id].name = name]
            /\ Respond("update_part_type", part_type_id, OK)
    /\ UNCHANGED <<suppliers, parts, stock_movements, uuids>>
    /\ UnchangedButParts

(* a delete that does not look for parts of the type *)
delete_part_type_Unchecked(part_type_id) ==
    /\ IF part_type_id \notin DOMAIN part_types
       THEN /\ Respond("delete_part_type", part_type_id, NotFound)
            /\ UNCHANGED <<part_types, now>>
       ELSE /\ now < MaxPartClock
            /\ now' = now + 1
            /\ part_types' = Remove(part_types, part_type_id)
            /\ Respond("delete_part_type", part_type_id, OK)
    /\ UNCHANGED <<suppliers, parts, stock_movements, uuids>>
    /\ UnchangedButParts

(* DELETE /part-types/{part_type_id} *)
delete_part_type(part_type_id) ==
    /\ IF \E i \in DOMAIN parts : parts[i].part_type_id = part_type_id
       THEN /\ Respond("delete_part_type", part_type_id, BadRequest)
            /\ UNCHANGED <<part_types, now>>
       ELSE IF part_type_id \notin DOMAIN part_types
            THEN /\ Respond("delete_part_type", part_type_id, NotFound)
                 /\ UNCHANGED <<part_types, now>>
            ELSE /\ now < MaxPartClock
                 /\ now' = now + 1
                 /\ part_types' = Remove(part_types, part_type_id)
                 /\ Respond("delete_part_type", part_type_id, OK)
    /\ UNCHANGED <<suppliers, parts, stock_movements, uuids>>
    /\ UnchangedButParts

(* POST /suppliers *)
create_supplier(name) ==
    /\ IF ExistingName(suppliers, name)
       THEN /\ Respond("create_supplier", 0, BadRequest)
            /\ UNCHANGED <<suppliers, uuids, now>>
       ELSE /\ uuids < MaxPartUuids
            /\ now < MaxPartClock
            /\ now' = now + 1
            /\ suppliers' = Insert(suppliers, uuids + 1, NewNamed(name, now))
            /\ uuids' = uuids + 1
            /\ Respond("create_supplier", uuids + 1, OK)
    /\ UNCHANGED <<part_types, parts, stock_movements>>
    /\ UnchangedButParts

(* PUT /suppliers/{supplier_id} *)
update_supplier(supplier_id, name) ==
    /\ IF supplier_id \notin DOMAIN suppliers
       THEN /\ Respond("update_supplier", supplier_id, NotFound)
            /\ UNCHANGED <<suppliers, now>>
       ELSE /\ now < MaxPartClock
            /\ now' = now + 1
            /\ suppliers' = [suppliers EXCEPT ![supplier_id].name = name]
            /\ Respond("update_supplier", supplier_id, OK)
    /\ UNCHANGED <<part_types, parts, stock_movements, uuids>>
    /\ UnchangedButParts

(* DELETE /suppliers/{supplier_id} *)
delete_supplier(supplier_id) ==
    /\ IF \E i \in DOMAIN parts : parts[i].supplier_id = supplier_id
       THEN /\ Respond("delete_supplier", supplier_id, BadRequest)
            /\ UNCHANGED <<suppliers, now>>
       ELSE IF supplier_id \notin DOMAIN suppliers
            THEN /\ Respond("delete_supplier", supplier_id, NotFound)
                 /\ UNCHANGED <<suppliers, now>>
            ELSE /\ now < MaxPartClock
                 /\ now' = now + 1
                 /\ suppliers' = Remove(suppliers, supplier_id)
                 /\ Respond("delete_supplier", supplier_id, OK)
    /\ UNCHANGED <<part_types, parts, stock_movements, uuids>>
    /\ UnchangedButParts

(* The Part document built by create_part; stock_quantity defaults to 0 *)
NewPart(code, part_type_id, supplier_id, notes, t) ==
    [code |-> code,
     part_type_id |-> part_type_id,
     supplier_id |-> supplier_id,
     notes |-> notes,
     stock_quantity |-> 0,
     created_at |-> t,
     updated_at |-> t]

(* find_one({"code": code}) *)
CodeInUse(db, code) == \E i \in DOMAIN db : db[i].code = code

(* the lookup with the id filter inverted: it finds the part itself *)
CodeInUseElsewhere_Itself(db, code, part_id) ==
    \E i \in DOMAIN db : db[i].code = code /\ i = part_id

(* find_one({"code": code, "id": {"$ne": part_id}}) *)
CodeInUseElsewhere(db, code, part_id) ==
    \E i \in DOMAIN db : db[i].code = code /\ i # part_id

(* POST /parts *)
create_part(code, part_type_id, supplier_id) ==
    /\ IF \/ part_type_id \notin DOMAIN part_types
          \/ supplier_id \notin DOMAIN suppliers
          \/ CodeInUse(parts, code)
       THEN /\ Respond("create_part", 0, BadRequest)
            /\ UNCHANGED <<parts, uuids, now>>
       ELSE /\ uuids < MaxPartUuids
            /\ now < MaxPartClock
            /\ parts' = Insert(parts, uuids + 1,
                               NewPart(code, part_type_id, supplier_id, "", now))
            /\ uuids' = uuids + 1
            /\ now' = now + 1
            /\ Respond("create_part", uuids + 1, OK)
    /\ UNCHANGED <<part_types, suppliers, stock_movements>>
    /\ UnchangedButParts

(* PartUpdate: every field Optional *)
PartUpdateFields == {"code", "part_type_id", "supplier_id", "notes"}

(* update_part's update_data: the payload fields that are not None *)
part_update_data(payload) == {f \in PartUpdateFields : ~IsNone(payload[f])}

(* {"$set": update_data} with update_data["updated_at"] = utcnow() *)
PartSet(doc, payload, t) ==
    [f \in DOMAIN doc |->
        IF f = "updated_at" THEN t
        ELSE IF f \in part_update_data(payload) THEN Val(payload[f])
        ELSE doc[f]]

(* PUT /parts/{part_id} *)
update_part(part_id, payload) ==
    /\ IF part_id \notin DOMAIN parts
       THEN /\ Respond("update_part", part_id, NotFound)
            /\ UNCHANGED <<parts, now>>
       ELSE IF \/ /\ ~IsNone(payload.code)
                  /\ CodeInUseElsewhere(parts, Val(payload.code), part_id)
               \/ /\ ~IsNone(payload.part_type_id)
                  /\ Val(payload.part_type_id) \notin DOMAIN part_types
               \/ /\ ~IsNone(payload.supplier_id)
                  /\ Val(payload.supplier_id) \notin DOMAIN suppliers
            THEN /\ Respond("update_part", part_id, BadRequest)
                 /\ UNCHANGED <<parts, now>>
            ELSE /\ IF part_update_data(payload) # {}
                    THEN /\ now < MaxPartClock
                         /\ parts' = [parts EXCEPT
                                         ![part_id] = PartSet(@, payload, now)]
                         /\ now' = now + 1
                    ELSE UNCHANGED <<parts, now>>
                 /\ Respond("update_part", part_id, OK)
    /\ UNCHANGED <<part_types, suppliers, stock_movements, uuids>>
    /\ UnchangedButParts

(* stock_movements.delete_many({"part_id": part_id}) *)
DeleteMany(movements, part_id) ==
    SelectSeq(movements, LAMBDA m : m.part_id # part_id)

(* DELETE /parts/{part_id} *)
delete_part(part_id) ==
    /\ IF part_id \notin DOMAIN parts
       THEN /\ Respond("delete_part", part_id, NotFound)
            /\ UNCHANGED <<parts, stock_movements, now>>
       ELSE /\ now < MaxPartClock
            /\ now' = now + 1
            /\ parts' = Remove(parts, part_id)
            /\ stock_movements' = DeleteMany(stock_movements, part_id)
            /\ Respond("delete_part", part_id, OK)
    /\ UNCHANGED <<part_types, suppliers, uuids>>
    /\ UnchangedButParts

(* the check with the equal case rejected too *)
NotEnoughStock_OrEqual(stock_quantity, quantity) == stock_quantity <= quantity

(* if part["stock_quantity"] < movement.quantity: raise 400 *)
NotEnoughStock(stock_quantity, quantity) == stock_quantity < quantity

(* new_quantity: IN adds the quantity, anything else subtracts it *)
NewQuantity(stock_quantity, movement_type, quantity) ==
    IF movement_type = "IN"
    THEN stock_quantity + quantity
    ELSE stock_quantity - quantity

(* The StockMovement document: the quantity as the request gave it *)
NewStockMovement(part_id, movement_type, quantity, t) ==
    [part_id |-> part_id,
     movement_type |-> movement_type,
     quantity |-> quantity,
     created_at |-> t]

(* POST /stock-movements *)
create_stock_movement(part_id, movement_type, quantity) ==
    /\ IF part_id \notin DOMAIN parts
       THEN /\ Respond("create_stock_movement", part_id, NotFound)
            /\ UNCHANGED <<parts, stock_movements, now>>
       ELSE IF /\ movement_type = "OUT"
               /\ NotEnoughStock(parts[part_id].stock_quantity, quantity)
            THEN /\ Respond("create_stock_movement", part_id, BadRequest)
                 /\ UNCHANGED <<parts, stock_movements, now>>
            ELSE /\ now < MaxPartClock
                 /\ stock_movements' =
                        Append(stock_movements,
                               NewStockMovement(part_id, movement_type,
                                                quantity, now))
                 /\ parts' =
                        [parts EXCEPT
                            ![part_id].stock_quantity =
                                NewQuantity(@, movement_type, quantity),
                            ![part_id].updated_at = now]
                 /\ now' = now + 1
                 /\ Respond("create_stock_movement", part_id, OK)
    /\ UNCHANGED <<part_types, suppliers, uuids>>
    /\ UnchangedButParts

(* Inputs of the parts requests *)
PartUuids == 1..MaxPartUuids
TypeNames == {"CHRA", "Actuator"}
SupplierNames == {"Melett"}
PartCodes == {"T-100", "T-200"}
RefInputs == {None} \cup {Some(id) : id \in PartUuids}
NoPartUpdate ==
    [code |-> None, part_type_id |-> None, supplier_id |-> None, notes |-> None]
(* payloads that set no field, or one *)
PartPayloads ==
    {NoPartUpdate}
    \cup {[NoPartUpdate EXCEPT !.code = Some(c)] : c \in PartCodes}
    \cup {[NoPartUpdate EXCEPT !.part_type_id = r] : r \in RefInputs}
    \cup {[NoPartUpdate EXCEPT !.supplier_id = r] : r \in RefInputs}
    \cup {[NoPartUpdate EXCEPT !.notes = Some("rebuilt")]}
StockMovementTypes == {"IN", "OUT"}

NextParts ==
    \/ \E name \in TypeNames : create_part_type(name)
    \/ \E id \in PartUuids, name \in TypeNames : update_part_type(id, name)
    \/ \E id \in PartUuids : delete_part_type(id)
    \/ \E name \in SupplierNames : create_supplier(name)
    \/ \E id \in PartUuids, name \in SupplierNames : update_supplier(id, name)
    \/ \E id \in PartUuids : delete_supplier(id)
    \/ \E code \in PartCodes, ty \in PartUuids, su \in PartUuids :
           create_part(code, ty, su)
    \/ \E id \in PartUuids, payload \in PartPayloads : update_part(id, payload)
    \/ \E id \in PartUuids : delete_part(id)
    \/ \E id \in PartUuids, ty \in StockMovementTypes, q \in Quantities :
           create_stock_movement(id, ty, q)

(* the store after POST /part-types and POST /suppliers were served once *)
(* each: part type 1 and supplier 2 exist, and no part yet               *)
InitParts ==
    /\ clients = NoDocuments
    /\ work_orders = NoDocuments
    /\ uuids = 2
    /\ now = 3
    /\ resp = NoResponse
    /\ inventory_items = NoDocuments
    /\ inventory_movements = <<>>
    /\ part_types = Insert(NoDocuments, 1, NewNamed("CHRA", 1))
    /\ suppliers = Insert(NoDocuments, 2, NewNamed("Melett", 2))
    /\ parts = NoDocuments
    /\ stock_movements = <<>>
    /\ reqs = NoDocuments
    /\ locked = {}

SpecParts == InitParts /\ [][NextParts]_vars

----------------------------------------------------------------------------
(* Work orders, requests interleaved between their database calls.  Every   *)
(* action is one awaited database call of one request, together with the    *)
(* code the handler runs up to its next await.                              *)

Procs == 1..MaxProcs
RaceOrderIds == 1..MaxRaceOrders

Idle(p) == p \notin DOMAIN reqs

(* the local variables of a handler between two awaits *)
Frame(op, pc, id, seq, list, index) ==
    [op |-> op, pc |-> pc, id |-> id, seq |-> seq, list |-> list, index |-> index]

Suspend(p, frame) == reqs' = Insert(reqs, p, frame)
Return(p) == reqs' = Remove(reqs, p)
At(p, op, pc) == ~Idle(p) /\ reqs[p].op = op /\ reqs[p].pc = pc

UnchangedRest == clients' = clients /\ UnchangedInventory /\ Unlocked

(* create_work_order: client = await db.clients.find_one(...) *)
CreateFindClient(p, client_id) ==
    /\ Idle(p)
    /\ now < MaxRaceClock
    /\ uuids < MaxRaceOrders
    /\ IF client_id \notin DOMAIN clients
       THEN /\ Respond("create_work_order", 0, BadRequest)
            /\ UNCHANGED reqs
       ELSE /\ Suspend(p, Frame("create", "next_sequence", client_id, 0, <<>>, 0))
            /\ UNCHANGED resp
    /\ UNCHANGED <<work_orders, uuids, now>>
    /\ UnchangedRest

(* create_work_order: next_sequence = await get_next_sequence_number() *)
CreateNextSequence(p) ==
    /\ At(p, "create", "next_sequence")
    /\ Suspend(p, [reqs[p] EXCEPT !.pc = "insert_one",
                                  !.seq = get_next_sequence_number(work_orders)])
    /\ UNCHANGED <<work_orders, uuids, now, resp>>
    /\ UnchangedRest

(* an insert that reads the next sequence number again as it writes *)
CreateInsert_Fresh(p) ==
    /\ At(p, "create", "insert_one")
    /\ work_orders' = Insert(work_orders, uuids + 1,
                             NewWorkOrder(reqs[p].id,
                                          get_next_sequence_number(work_orders),
                                          now))
    /\ uuids' = uuids + 1
    /\ now' = now + 1
    /\ Respond("create_work_order", uuids + 1, OK)
    /\ Return(p)
    /\ UnchangedRest

(* create_work_order: await db.work_orders.insert_one(...); return *)
CreateInsert(p) ==
    /\ At(p, "create", "insert_one")
    /\ work_orders' = Insert(work_orders, uuids + 1,
                             NewWorkOrder(reqs[p].id, reqs[p].seq, now))
    /\ uuids' = uuids + 1
    /\ now' = now + 1
    /\ Respond("create_work_order", uuids + 1, OK)
    /\ Return(p)
    /\ UnchangedRest

(* delete_work_order: work_order = await db.work_orders.find_one(...) *)
DeleteFind(p, id) ==
    /\ Idle(p)
    /\ now < MaxRaceClock
    /\ IF id \notin DOMAIN work_orders
       THEN /\ Respond("delete_work_order", id, NotFound)
            /\ UNCHANGED reqs
       ELSE IF IsFinalized(work_orders[id])
       THEN /\ Respond("delete_work_order", id, BadRequest)
            /\ UNCHANGED reqs
       ELSE /\ Suspend(p, Frame("delete", "delete_one", id, 0, <<>>, 0))
            /\ UNCHANGED resp
    /\ UNCHANGED <<work_orders, uuids, now>>
    /\ UnchangedRest

(* delete_work_order: result = await db.work_orders.delete_one(...) *)
DeleteOne(p) ==
    /\ At(p, "delete", "delete_one")
    /\ IF reqs[p].id \notin DOMAIN work_orders
       THEN /\ Respond("delete_work_order", reqs[p].id, NotFound)
            /\ Return(p)
            /\ UNCHANGED work_orders
       ELSE /\ work_orders' = Remove(work_orders, reqs[p].id)
            /\ Suspend(p, [reqs[p] EXCEPT !.pc = "recalc_find"])
            /\ UNCHANGED resp
    /\ UNCHANGED <<uuids, now>>
    /\ UnchangedRest

(* the ids of SortedByCreatedAt(db) as the list to_list returns *)
RECURSIVE SortedList(_, _)
SortedList(db, n) ==
    IF n = 0 THEN <<>>
    ELSE Append(SortedList(db, n - 1),
                CHOOSE i \in SortedByCreatedAt(db) : Position(db, i) = n)

(* recalculate_sequence_numbers: work_orders = await ....to_list(1000) *)
RecalcFind(p) ==
    /\ At(p, "delete", "recalc_find")
    /\ LET list == SortedList(work_orders, Cardinality(SortedByCreatedAt(work_orders)))
       IN  IF list = <<>>
           THEN /\ Respond("delete_work_order", reqs[p].id, OK)
                /\ Return(p)
           ELSE /\ Suspend(p, [reqs[p] EXCEPT !.pc = "recalc_update",
                                              !.list = list, !.index = 1])
                /\ UNCHANGED resp
    /\ UNCHANGED <<work_orders, uuids, now>>
    /\ UnchangedRest

(* a step that renumbers the whole collection as it stands, at once *)
RecalcUpdate_Whole(p) ==
    /\ At(p, "delete", "recalc_update")
    /\ work_orders' = recalculate_sequence_numbers(work_orders, now)
    /\ Respond("delete_work_order", reqs[p].id, OK)
    /\ Return(p)
    /\ now' = now + 1
    /\ UNCHANGED uuids
    /\ UnchangedRest

(* recalculate_sequence_numbers: one await db.work_orders.update_one(...)   *)
(* of the loop; a filter that matches no document updates nothing           *)
RecalcUpdate(p) ==
    /\ At(p, "delete", "recalc_update")
    /\ LET index == reqs[p].index
           target == reqs[p].list[index]
       IN  /\ work_orders' =
                  IF target \in DOMAIN work_orders
                  THEN [work_orders EXCEPT
                           ![target] = Renumbered(work_orders[target], index, now)]
                  ELSE work_orders
           /\ IF index = Len(reqs[p].list)
              THEN /\ Respond("delete_work_order", reqs[p].id, OK)
                   /\ Return(p)
              ELSE /\ Suspend(p, [reqs[p] EXCEPT !.index = index + 1])
                   /\ UNCHANGED resp
    /\ now' = now + 1
    /\ UNCHANGED uuids
    /\ UnchangedRest

(* finalize_work_order: work_order = await db.work_orders.find_one(...) *)
FinalizeFind(p, id) ==
    /\ Idle(p)
    /\ now < MaxRaceClock
    /\ IF id \notin DOMAIN work_orders
       THEN /\ Respond("finalize_work_order", id, NotFound)
            /\ UNCHANGED reqs
       ELSE IF IsFinalized(work_orders[id])
       THEN /\ Respond("finalize_work_order", id, BadRequest)
            /\ UNCHANGED reqs
       ELSE /\ Suspend(p, Frame("finalize", "update_one", id, 0, <<>>, 0))
            /\ UNCHANGED resp
    /\ UNCHANGED <<work_orders, uuids, now>>
    /\ UnchangedRest

(* finalize_work_order: await db.work_orders.update_one(...) *)
FinalizeUpdate(p) ==
    /\ At(p, "finalize", "update_one")
    /\ work_orders' =
           IF reqs[p].id \in DOMAIN work_orders
           THEN [work_orders EXCEPT
                    ![reqs[p].id] = Finalized(work_orders[reqs[p].id], now)]
           ELSE work_orders
    /\ now' = now + 1
    /\ Suspend(p, [reqs[p] EXCEPT !.pc = "find_updated"])
    /\ UNCHANGED <<uuids, resp>>
    /\ UnchangedRest

(* uncaught exception in a handler *)
InternalServerError == 500

(* finalize_work_order: updated = await db.work_orders.find_one(...);       *)
(* building the WorkOrder from a missing document raises                    *)
FinalizeReturn(p) ==
    /\ At(p, "finalize", "find_updated")
    /\ Respond("finalize_work_order", reqs[p].id,
               IF reqs[p].id \in DOMAIN work_orders
               THEN OK ELSE InternalServerError)
    /\ Return(p)
    /\ UNCHANGED <<work_orders, uuids, now>>
    /\ UnchangedRest

(* the store once a first client has been registered *)
InitRace ==
    /\ clients = Insert(NoDocuments, 1, NewClient("0711", 1))
    /\ work_orders = NoDocuments
    /\ uuids = 0
    /\ now = 1
    /\ resp = NoResponse
    /\ inventory_items = NoDocuments
    /\ inventory_movements = <<>>
    /\ part_types = NoDocuments
    /\ suppliers = NoDocuments
    /\ parts = NoDocuments
    /\ stock_movements = <<>>
    /\ reqs = NoDocuments
    /\ locked = {}

NextRace ==
    \/ \E p \in Procs, c \in ClientRefs \cup {MaxClients + 1} : CreateFindClient(p, c)
    \/ \E p \in Procs : CreateNextSequence(p)
    \/ \E p \in Procs : CreateInsert(p)
    \/ \E p \in Procs, id \in RaceOrderIds : DeleteFind(p, id)
    \/ \E p \in Procs : DeleteOne(p)
    \/ \E p \in Procs : RecalcFind(p)
    \/ \E p \in Procs : RecalcUpdate(p)
    \/ \E p \in Procs, id \in RaceOrderIds : FinalizeFind(p, id)
    \/ \E p \in Procs : FinalizeUpdate(p)
    \/ \E p \in Procs : FinalizeReturn(p)

SpecRace == InitRace /\ [][NextRace]_vars

----------------------------------------------------------------------------
(* Inventory movements interleaved between their database calls: find_one  *)
(* of the item, insert_one of the movement, update_one of the item.        *)

UnchangedButInventory ==
    /\ UNCHANGED <<clients, work_orders, uuids, locked>>
    /\ UnchangedParts

(* the local variables of create_inventory_movement between two awaits;    *)
(* index is the place of movement_obj in the ledger once inserted          *)
MovementFrame(pc, item_id, movement_type, quantity, stock_before, index) ==
    [op |-> "movement", pc |-> pc, item_id |-> item_id,
     movement_type |-> movement_type, quantity |-> quantity,
     stock_before |-> stock_before, index |-> index]

(* item = await db.inventory_items.find_one(...), then the checks on the   *)
(* stock that was read                                                     *)
MovementFind(p, item_id, movement_type, quantity) ==
    /\ Idle(p)
    /\ now < MaxInvRaceClock
    /\ IF item_id \notin DOMAIN inventory_items
       THEN /\ Respond("create_inventory_movement", item_id, NotFound)
            /\ UNCHANGED reqs
       ELSE LET stock_before == inventory_items[item_id].current_stock
            IN  IF InsufficientStock(StockAfter(stock_before, movement_type,
                                                quantity))
                THEN /\ Respond("create_inventory_movement", item_id,
                                BadRequest)
                     /\ UNCHANGED reqs
                ELSE /\ Suspend(p, MovementFrame("insert_one", item_id,
                                                 movement_type, quantity,
                                                 stock_before, 0))
                     /\ UNCHANGED resp
    /\ UNCHANGED <<inventory_items, inventory_movements, now>>
    /\ UnchangedButInventory

(* await db.inventory_movements.insert_one(movement_obj.dict()) *)
MovementInsert(p) ==
    /\ At(p, "movement", "insert_one")
    /\ inventory_movements' =
           Append(inventory_movements,
                  NewInventoryMovement(reqs[p].item_id, reqs[p].movement_type,
                                       reqs[p].quantity, reqs[p].stock_before,
                                       now))
    /\ now' = now + 1
    /\ Suspend(p, [reqs[p] EXCEPT !.pc = "update_one",
                                  !.index = Len(inventory_movements) + 1])
    /\ UNCHANGED <<inventory_items, resp>>
    /\ UnchangedButInventory

(* an update that adds the quantity to the stock as it stands *)
MovementUpdate_Increment(p) ==
    /\ At(p, "movement", "update_one")
    /\ inventory_items' =
           [inventory_items EXCEPT
               ![reqs[p].item_id].current_stock =
                   @ + SignedQuantity(reqs[p].movement_type, reqs[p].quantity),
               ![reqs[p].item_id].updated_at = now]
    /\ now' = now + 1
    /\ Respond("create_inventory_movement", reqs[p].item_id, OK)
    /\ Return(p)
    /\ UNCHANGED inventory_movements
    /\ UnchangedButInventory

(* await db.inventory_items.update_one(... {"$set": {"current_stock":      *)
(* stock_after, "updated_at": utcnow()}}); return movement_obj             *)
MovementUpdate(p) ==
    /\ At(p, "movement", "update_one")
    /\ inventory_items' =
           [inventory_items EXCEPT
               ![reqs[p].item_id].current_stock =
                   StockAfter(reqs[p].stock_before, reqs[p].movement_type,
                              reqs[p].quantity),
               ![reqs[p].item_id].updated_at = now]
    /\ now' = now + 1
    /\ Respond("create_inventory_movement", reqs[p].item_id, OK)
    /\ Return(p)
    /\ UNCHANGED inventory_movements
    /\ UnchangedButInventory

(* a failure that takes the movement record back *)
MovementUpdateFails_Compensating(p) ==
    /\ At(p, "movement", "update_one")
    /\ inventory_movements' =
           SubSeq(inventory_movements, 1, reqs[p].index - 1)
           \o SubSeq(inventory_movements, reqs[p].index + 1,
                     Len(inventory_movements))
    /\ Respond("create_inventory_movement", reqs[p].item_id,
               InternalServerError)
    /\ Return(p)
    /\ UNCHANGED <<inventory_items, now>>
    /\ UnchangedButInventory

(* the update_one raises (the database is unreachable): the handler has no *)
(* try/except and no transaction, the exception ends the request           *)
MovementUpdateFails(p) ==
    /\ At(p, "movement", "update_one")
    /\ Respond("create_inventory_movement", reqs[p].item_id,
               InternalServerError)
    /\ Return(p)
    /\ UNCHANGED <<inventory_items, inventory_movements, now>>
    /\ UnchangedButInventory

(* the store once a first item has been created with current_stock MaxQty *)
InitInvRace ==
    /\ clients = NoDocuments
    /\ work_orders = NoDocuments
    /\ uuids = 0
    /\ now = 2
    /\ resp = NoResponse
    /\ inventory_items =
           Insert(NoDocuments, 1, NewInventoryItem("GEO-001", MaxQty, 1))
    /\ inventory_movements = <<>>
    /\ part_types = NoDocuments
    /\ suppliers = NoDocuments
    /\ parts = NoDocuments
    /\ stock_movements = <<>>
    /\ reqs = NoDocuments
    /\ locked = {}

(* Inputs of the interleaved movements *)
RaceMovementTypes == {"IN", "OUT"}
RaceQuantities == {1, MaxQty}

NextInvRace ==
    \/ \E p \in Procs, id \in ItemIds, ty \in RaceMovementTypes,
          q \in RaceQuantities :
           MovementFind(p, id, ty, q)
    \/ \E p \in Procs : MovementInsert(p)
    \/ \E p \in Procs : MovementUpdate(p)
    \/ \E p \in Procs : MovementUpdateFails(p)

SpecInvRace == InitInvRace /\ [][NextInvRace]_vars

----------------------------------------------------------------------------
(* Stock movements and part deletes interleaved between their database     *)
(* calls.                                                                  *)

(* the local variables of create_stock_movement and delete_part between    *)
(* two awaits; stock_quantity is part["stock_quantity"] as read            *)
StockFrame(op, pc, part_id, movement_type, quantity, stock_quantity) ==
    [op |-> op, pc |-> pc, part_id |-> part_id,
     movement_type |-> movement_type, quantity |-> quantity,
     stock_quantity |-> stock_quantity]

(* create_stock_movement: part = await db.parts.find_one(...), then the    *)
(* check of an OUT against the stock that was read                         *)
StockFind(p, part_id, movement_type, quantity) ==
    /\ Idle(p)
    /\ now < MaxPartRaceClock
    /\ IF part_id \notin DOMAIN parts
       THEN /\ Respond("create_stock_movement", part_id, NotFound)
            /\ UNCHANGED reqs
       ELSE IF /\ movement_type = "OUT"
               /\ NotEnoughStock(parts[part_id].stock_quantity, quantity)
            THEN /\ Respond("create_stock_movement", part_id, BadRequest)
                 /\ UNCHANGED reqs
            ELSE /\ Suspend(p, StockFrame("stock_movement", "insert_one",
                                          part_id, movement_type, quantity,
                                          parts[part_id].stock_quantity))
                 /\ UNCHANGED resp
    /\ UNCHANGED <<part_types, suppliers, parts, stock_movements, uuids, now>>
    /\ UNCHANGED <<clients, work_orders, locked,
                    inventory_items, inventory_movements>>

(* create_stock_movement: await db.stock_movements.insert_one(...) *)
StockInsert(p) ==
    /\ At(p, "stock_movement", "insert_one")
    /\ stock_movements' =
           Append(stock_movements,
                  NewStockMovement(reqs[p].part_id, reqs[p].movement_type,
                                   reqs[p].quantity, now))
    /\ now' = now + 1
    /\ Suspend(p, [reqs[p] EXCEPT !.pc = "update_one"])
    /\ UNCHANGED <<part_types, suppliers, parts, uuids, resp>>
    /\ UNCHANGED <<clients, work_orders, locked,
                    inventory_items, inventory_movements>>

(* create_stock_movement: await db.parts.update_one(...), return; a filter *)
(* that matches no document updates nothing                                *)
StockUpdate(p) ==
    /\ At(p, "stock_movement", "update_one")
    /\ parts' =
           IF reqs[p].part_id \in DOMAIN parts
           THEN [parts EXCEPT
                    ![reqs[p].part_id].stock_quantity =
                        NewQuantity(reqs[p].stock_quantity,
                                    reqs[p].movement_type, reqs[p].quantity),
                    ![reqs[p].part_id].updated_at = now]
           ELSE parts
    /\ now' = now + 1
    /\ Respond("create_stock_movement", reqs[p].part_id, OK)
    /\ Return(p)
    /\ UNCHANGED <<part_types, suppliers, stock_movements, uuids>>
    /\ UNCHANGED <<clients, work_orders, locked,
                    inventory_items, inventory_movements>>

(* delete_part: result = await db.parts.delete_one(...) *)
PartDeleteOne(p, part_id) ==
    /\ Idle(p)
    /\ now < MaxPartRaceClock
    /\ IF part_id \notin DOMAIN parts
       THEN /\ Respond("delete_part", part_id, NotFound)
            /\ UNCHANGED <<parts, reqs>>
       ELSE /\ parts' = Remove(parts, part_id)
            /\ Suspend(p, StockFrame("delete_part", "delete_many", part_id,
                                     "", 0, 0))
            /\ UNCHANGED resp
    /\ UNCHANGED <<part_types, suppliers, stock_movements, uuids, now>>
    /\ UNCHANGED <<clients, work_orders, locked,
                    inventory_items, inventory_movements>>

(* delete_part: await db.stock_movements.delete_many(...), return *)
PartDeleteMany(p) ==
    /\ At(p, "delete_part", "delete_many")
    /\ stock_movements' = DeleteMany(stock_movements, reqs[p].part_id)
    /\ Respond("delete_part", reqs[p].part_id, OK)
    /\ Return(p)
    /\ UNCHANGED <<part_types, suppliers, parts, uuids, now>>
    /\ UNCHANGED <<clients, work_orders, locked,
                    inventory_items, inventory_movements>>

(* the store once a part type, a supplier and two parts have been created *)
InitPartsRace ==
    /\ clients = NoDocuments
    /\ work_orders = NoDocuments
    /\ uuids = 4
    /\ now = 5
    /\ resp = NoResponse
    /\ inventory_items = NoDocuments
    /\ inventory_movements = <<>>
    /\ part_types = Insert(NoDocuments, 1, NewNamed("CHRA", 1))
    /\ suppliers = Insert(NoDocuments, 2, NewNamed("Melett", 2))
    /\ parts = Insert(Insert(NoDocuments, 3, NewPart("T-100", 1, 2, "", 3)),
                      4, NewPart("T-200", 1, 2, "", 4))
    /\ stock_movements = <<>>
    /\ reqs = NoDocuments
    /\ locked = {}

NextPartsRace ==
    \/ \E p \in Procs, id \in PartUuids, ty \in StockMovementTypes,
          q \in RaceQuantities :
           StockFind(p, id, ty, q)
    \/ \E p \in Procs : StockInsert(p)
    \/ \E p \in Procs : StockUpdate(p)
    \/ \E p \in Procs, id \in PartUuids : PartDeleteOne(p, id)
    \/ \E p \in Procs : PartDeleteMany(p)

SpecPartsRace == InitPartsRace /\ [][NextPartsRace]_vars

----------------------------------------------------------------------------
(* Properties *)

IsStep(op, id) == resp'.op = op /\ resp'.id = id

Dense(db) ==
    {db[i].work_sequence : i \in DOMAIN db} = 1..Cardinality(DOMAIN db)

(* C1: in every state reached by work-order requests executed one at a     *)
(* time, the work_sequence values of the N existing work orders are         *)
(* exactly {1, ..., N}.                                                     *)
C1_SequenceDensity == Dense(work_orders)

(* C2: every existing work order (all are numbered by Create or by the      *)
(* renumbering of a Delete) has work_number equal to its work_sequence      *)
(* rendered in decimal, zero-padded to 5 digits.                            *)
C2_NumberSequenceBinding ==
    \A i \in DOMAIN work_orders :
        work_orders[i].work_number = Format05d(work_orders[i].work_sequence)

(* C3: a Delete request on a work order whose stored is_finalized is true   *)
(* answers 400 and leaves every work order (and every client) unchanged.    *)
C3_FinalizeGuard ==
    [][\A id \in OrderIds :
          (/\ id \in DOMAIN work_orders
           /\ work_orders[id].is_finalized
           /\ IsStep("delete_work_order", id))
          => (/\ resp'.status = BadRequest
              /\ work_orders' = work_orders
              /\ clients' = clients)]_vars

C3_Witness ==
    /\ resp.op = "delete_work_order"
    /\ resp.status = BadRequest
    /\ resp.id \in DOMAIN work_orders
    /\ work_orders[resp.id].is_finalized
    /\ Cardinality(DOMAIN work_orders) >= 2

(* C4: with Delete and Finalize requests interleaved between their          *)
(* database calls, no step removes a record whose stored is_finalized is    *)
(* true.                                                                    *)
C4_FinalizedNeverDeleted ==
    [][\A id \in RaceOrderIds :
          (id \in DOMAIN work_orders /\ id \notin DOMAIN work_orders')
          => ~work_orders[id].is_finalized]_vars

(* C5: in every state reached by inventory requests executed one at a      *)
(* time, every inventory item's current_stock is >= 0.                      *)
C5_StockNonNegative ==
    \A i \in DOMAIN inventory_items : inventory_items[i].current_stock >= 0

(* C6: an OUT movement whose quantity exceeds the item's current_stock      *)
(* answers 400 and writes nothing: no movement record is appended and no    *)
(* item changes (current_stock and updated_at included).                    *)
C6_InsufficientStockRejected ==
    [][\A id \in ItemIds, q \in Quantities :
          (/\ id \in DOMAIN inventory_items
           /\ q > inventory_items[id].current_stock
           /\ create_inventory_movement(id, "OUT", q))
          => (/\ resp'.status = BadRequest
              /\ inventory_movements' = inventory_movements
              /\ inventory_items' = inventory_items)]_vars

(* stock 5, OUT 5 recorded leaving 0, then an OUT answered 400, stock 0 *)
C6_Witness ==
    /\ resp.op = "create_inventory_movement"
    /\ resp.status = BadRequest
    /\ resp.id \in DOMAIN inventory_items
    /\ inventory_items[resp.id].current_stock = 0
    /\ \E k \in 1..Len(inventory_movements) :
          /\ inventory_movements[k].item_id = resp.id
          /\ inventory_movements[k].movement_type = "OUT"
          /\ inventory_movements[k].stock_before = MaxQty
          /\ inventory_movements[k].stock_after = 0

(* C7: a recorded IN or OUT movement of a positive requested quantity q     *)
(* has stock_before equal to the item's current_stock before the request,   *)
(* stock_after = stock_before + q for IN and stock_before - q for OUT, and  *)
(* the item's current_stock after the request equals stock_after.           *)
C7_MovementSnapshot ==
    [][\A id \in ItemIds, ty \in {"IN", "OUT"}, q \in Quantities :
          (/\ q > 0
           /\ create_inventory_movement(id, ty, q)
           /\ resp'.status = OK)
          => (/\ Len(inventory_movements') = Len(inventory_movements) + 1
              /\ LET m == inventory_movements'[Len(inventory_movements')]
                 IN  /\ m.item_id = id
                     /\ m.stock_before = inventory_items[id].current_stock
                     /\ m.stock_after =
                            IF ty = "IN" THEN m.stock_before + q
                            ELSE m.stock_before - q
                     /\ inventory_items'[id].current_stock = m.stock_after)]_vars

C7_Witness ==
    /\ resp.op = "create_inventory_movement"
    /\ resp.status = OK
    /\ Len(inventory_movements) >= 2
    /\ inventory_movements[Len(inventory_movements)].movement_type = "OUT"
    /\ inventory_movements[Len(inventory_movements)].quantity < 0
    /\ \E k \in 1..Len(inventory_movements) :
          /\ inventory_movements[k].movement_type = "IN"
          /\ inventory_movements[k].quantity > 0

(* C8: an Update request never changes the stored work_number or            *)
(* work_sequence of its target, whatever the payload.                       *)
C8_UpdateKeepsNumbering ==
    [][\A id \in OrderIds :
          (id \in DOMAIN work_orders /\ IsStep("update_work_order", id))
          => (/\ work_orders'[id].work_number = work_orders[id].work_number
              /\ work_orders'[id].work_sequence = work_orders[id].work_sequence)]_vars

(* C9: each existing work order has finalized_at present if and only if     *)
(* its is_finalized flag is true.                                           *)
C9_FinalizedAtIffFinalized ==
    \A i \in DOMAIN work_orders :
        ~IsNone(work_orders[i].finalized_at) <=> work_orders[i].is_finalized

(* C10: once a Finalize of a work order has succeeded, no Delete of that    *)
(* order succeeds until an Unfinalize of that order has been performed;     *)
(* a Delete that directly follows the Unfinalize succeeds.                  *)
C10_FinalizeLock ==
    [][\A id \in OrderIds :
          IsStep("delete_work_order", id)
          => (/\ resp'.status = OK => id \notin locked
              /\ (/\ resp.op = "unfinalize_work_order"
                  /\ resp.id = id
                  /\ resp.status = OK) => resp'.status = OK)]_vars

(* C11: Finalize on an existing work order that is not finalized answers    *)
(* 200 and sets is_finalized to true, finalized_at to the operation time    *)
(* and status to RECEIVED, whatever the prior status.                       *)
C11_FinalizeEffect ==
    [][\A id \in OrderIds :
          (/\ id \in DOMAIN work_orders
           /\ ~work_orders[id].is_finalized
           /\ IsStep("finalize_work_order", id))
          => (/\ resp'.status = OK
              /\ work_orders'[id].is_finalized
              /\ work_orders'[id].finalized_at = Some(now)
              /\ work_orders'[id].status = "RECEIVED")]_vars

(* a Finalize has just succeeded on the only order, which one request had   *)
(* written between its creation and the Finalize                            *)
C11_Witness ==
    /\ resp.op = "finalize_work_order"
    /\ resp.status = OK
    /\ resp.id \in DOMAIN work_orders
    /\ work_orders[resp.id].status = "RECEIVED"
    /\ work_orders[resp.id].is_finalized
    /\ work_orders[resp.id].finalized_at = Some(now - 1)
    /\ uuids = 1
    /\ work_orders[resp.id].created_at + 2 = now - 1

(* C12: Finalize on a work order that is already finalized answers 400 and  *)
(* changes nothing: no field of any work order changes.                     *)
C12_SecondFinalizeRejected ==
    [][\A id \in OrderIds :
          (/\ id \in DOMAIN work_orders
           /\ work_orders[id].is_finalized
           /\ IsStep("finalize_work_order", id))
          => (/\ resp'.status = BadRequest
              /\ work_orders' = work_orders)]_vars

C12_Witness ==
    /\ resp.op = "finalize_work_order"
    /\ resp.status = BadRequest
    /\ resp.id \in DOMAIN work_orders
    /\ work_orders[resp.id].is_finalized
    /\ ~IsNone(work_orders[resp.id].finalized_at)

(* C13: Unfinalize on any existing work order answers 200 and leaves it     *)
(* with is_finalized false, finalized_at cleared and status DRAFT.          *)
C13_UnfinalizeEffect ==
    [][\A id \in OrderIds :
          (id \in DOMAIN work_orders /\ IsStep("unfinalize_work_order", id))
          => (/\ resp'.status = OK
              /\ ~work_orders'[id].is_finalized
              /\ IsNone(work_orders'[id].finalized_at)
              /\ work_orders'[id].status = "DRAFT")]_vars

(* an Unfinalize has just succeeded on one order while the Finalize of      *)
(* another order still stands                                               *)
C13_Witness ==
    /\ resp.op = "unfinalize_work_order"
    /\ resp.status = OK
    /\ resp.id \in DOMAIN work_orders
    /\ work_orders[resp.id].status = "DRAFT"
    /\ work_orders[resp.id].updated_at = now - 1
    /\ locked # {}

C15_CreateEffect ==
    [][(resp'.op = "create_work_order" /\ resp'.status = OK)
          => LET id == resp'.id
                 old == {work_orders[j].work_sequence : j \in DOMAIN work_orders}
             IN  /\ id \notin DOMAIN work_orders
                 /\ DOMAIN work_orders' = DOMAIN work_orders \cup {id}
                 /\ \A n \in old : n < work_orders'[id].work_sequence
                 /\ IF old = {} THEN work_orders'[id].work_sequence = 1
                    ELSE work_orders'[id].work_sequence - 1 \in old
                 /\ work_orders'[id].status = "DRAFT"
                 /\ ~work_orders'[id].is_finalized
                 /\ \A j \in DOMAIN work_orders :
                        work_orders'[j] = work_orders[j]]_vars

(* a Create has just succeeded next to an order whose sequence an Update    *)
(* had raised                                                               *)
C15_Witness ==
    /\ resp.op = "create_work_order"
    /\ resp.status = OK
    /\ resp.id \in DOMAIN work_orders
    /\ Cardinality(DOMAIN work_orders) = 2
    /\ work_orders[resp.id].work_sequence = MaxSeqInput + 1

(* C16: over inventory requests the movement records only grow in number    *)
(* and no field of an existing movement record changes.                     *)
C16_AppendOnlyLedger ==
    [][/\ Len(inventory_movements') >= Len(inventory_movements)
       /\ \A k \in 1..Len(inventory_movements) :
              inventory_movements'[k] = inventory_movements[k]]_vars

(* an item with recorded movements has just been soft-deleted *)
C16_Witness ==
    /\ resp.op = "delete_inventory_item"
    /\ resp.status = OK
    /\ ~inventory_items[resp.id].active
    /\ \E k \in 1..Len(inventory_movements) :
           inventory_movements[k].item_id = resp.id

(* C19: after client create and update requests executed one at a time, no  *)
(* two existing clients have the same phone.                                *)
C19_PhoneUnique ==
    \A a, b \in DOMAIN clients :
        a # b => clients[a].phone # clients[b].phone

SameNumbering(db, i, j) ==
    /\ i # j
    /\ db[i].work_sequence = db[j].work_sequence
    /\ db[i].work_number = db[j].work_number

(* C20: with Create requests interleaved between 'read max sequence' and    *)
(* 'insert', an insert whose sequence number, read earlier, has meanwhile   *)
(* been taken by an existing order leaves two existing work orders with     *)
(* the same work_sequence and the same work_number (C20_Witness: such a     *)
(* state is reached).                                                       *)
C20_StaleSequenceInserted ==
    [][\A p \in Procs :
          (/\ At(p, "create", "insert_one")
           /\ \E i \in DOMAIN work_orders :
                  work_orders[i].work_sequence = reqs[p].seq
           /\ CreateInsert(p))
          => \E i, j \in DOMAIN work_orders' :
                 SameNumbering(work_orders', i, j)]_vars

(* two Creates have answered 200, nothing is in flight, nothing was ever    *)
(* deleted, and both orders carry sequence 1 and number "00001"             *)
C20_Witness ==
    /\ reqs = NoDocuments
    /\ resp.op = "create_work_order"
    /\ resp.status = OK
    /\ DOMAIN work_orders = {1, 2}
    /\ uuids = 2
    /\ SameNumbering(work_orders, 1, 2)
    /\ work_orders[1].work_number = Format05d(1)

RECURSIVE Balance(_, _)
(* the sum of the recorded movements of a part: IN adds, OUT subtracts *)
Balance(movements, part_id) ==
    IF movements = <<>> THEN 0
    ELSE LET m == Head(movements)
         IN  (IF m.part_id = part_id
              THEN NewQuantity(0, m.movement_type, m.quantity)
              ELSE 0)
             + Balance(Tail(movements), part_id)

(* C17: on the parts stock path (POST /stock-movements), an OUT whose       *)
(* quantity exceeds the part's stock_quantity answers 400, inserts no       *)
(* record and leaves stock_quantity unchanged; an IN of q answers 200 and   *)
(* adds q; an OUT of q <= stock answers 200 and subtracts q; so a part's    *)
(* stock_quantity is always what its recorded INs and OUTs add up to from   *)
(* 0 (an IN of q followed by an OUT of q' leaves stock + q - q').           *)
C17_PartsStockPath ==
    [][/\ resp'.op = "create_stock_movement"
          => \A id \in DOMAIN parts, q \in Quantities :
                 LET stock == parts[id].stock_quantity
                 IN  /\ (q > stock /\ create_stock_movement(id, "OUT", q))
                        => /\ resp'.status = BadRequest
                           /\ UNCHANGED <<parts, stock_movements>>
                     /\ create_stock_movement(id, "IN", q)
                        => /\ resp'.status = OK
                           /\ parts'[id].stock_quantity = stock + q
                           /\ Len(stock_movements') = Len(stock_movements) + 1
                     /\ (q <= stock /\ create_stock_movement(id, "OUT", q))
                        => /\ resp'.status = OK
                           /\ parts'[id].stock_quantity = stock - q
                           /\ Len(stock_movements') = Len(stock_movements) + 1
       /\ \A id \in DOMAIN parts' :
              parts'[id].stock_quantity = Balance(stock_movements', id)]_vars

(* a part received an IN of MaxQty and then an OUT of 1, both accepted, and *)
(* holds MaxQty - 1; a further OUT of more than that has just been refused  *)
C17_Witness ==
    \E id \in DOMAIN parts :
        /\ Len(stock_movements) = 2
        /\ stock_movements[1].part_id = id
        /\ stock_movements[1].movement_type = "IN"
        /\ stock_movements[1].quantity = MaxQty
        /\ stock_movements[2].part_id = id
        /\ stock_movements[2].movement_type = "OUT"
        /\ stock_movements[2].quantity = 1
        /\ parts[id].stock_quantity = MaxQty - 1
        /\ resp = [op |-> "create_stock_movement", id |-> id,
                   status |-> BadRequest]

(* no two existing parts share a code *)
CodeUnique(db) == \A i, j \in DOMAIN db : i # j => db[i].code # db[j].code

(* C18: creating a part whose code is the code of an existing part answers  *)
(* 400 and inserts nothing, and after every create_part, update_part and    *)
(* delete_part, executed one at a time, no two existing parts share a code. *)
C18_PartCodeUnique ==
    [][/\ resp'.op = "create_part"
          => \A code \in PartCodes, ty \in PartUuids, su \in PartUuids :
                 (CodeInUse(parts, code) /\ create_part(code, ty, su))
                 => /\ resp'.status = BadRequest
                    /\ UNCHANGED parts
       /\ CodeUnique(parts')]_vars

(* a part was created with one code and updated to the other, a second     *)
(* part then took the freed code, and a further create has been refused     *)
(* while both codes are in use                                              *)
C18_Witness ==
    \E i, j \in DOMAIN parts :
        /\ i < j
        /\ parts[i].updated_at > parts[i].created_at
        /\ parts[i].created_at < parts[j].created_at
        /\ parts[i].updated_at < parts[j].created_at
        /\ parts[i].code = "T-200"
        /\ parts[j].code = "T-100"
        /\ resp = [op |-> "create_part", id |-> 0, status |-> BadRequest]

(* the 1-based position of order i among the orders of db, in ascending     *)
(* order of created_at                                                      *)
Rank(db, i) ==
    Cardinality({j \in DOMAIN db : db[j].created_at < db[i].created_at}) + 1

C29_NumberingFollowsCreation ==
    [][/\ \A a, b \in DOMAIN work_orders' :
              work_orders'[a].created_at < work_orders'[b].created_at
              => work_orders'[a].work_sequence < work_orders'[b].work_sequence
       /\ \A i \in DOMAIN work_orders \cap DOMAIN work_orders' :
              work_orders'[i].work_sequence <= work_orders[i].work_sequence
      ]_vars

(* three orders were created and the first has just been deleted: the two   *)
(* survivors moved down to sequences 1 and 2, in creation order             *)
C29_Witness ==
    /\ resp = [op |-> "delete_work_order", id |-> 1, status |-> OK]
    /\ DOMAIN work_orders = {2, 3}
    /\ work_orders[2].created_at < work_orders[3].created_at
    /\ work_orders[2].work_sequence = 1
    /\ work_orders[3].work_sequence = 2

(* C25: for every pair of statuses (s, t) and every existing work order in  *)
(* status s, finalized or not, an Update supplying status = t answers 200   *)
(* and leaves the order in status t, with is_finalized as it was.           *)
C25_StatusUnrestricted ==
    [][\A id \in DOMAIN work_orders, t \in WorkStatus :
           update_work_order(id, StatusPayload(Some(t)))
           => /\ resp'.status = OK
              /\ work_orders'[id].status = t
              /\ work_orders'[id].is_finalized = work_orders[id].is_finalized
      ]_vars

(* a finalized order has been put back into DRAFT by an Update, and is      *)
(* still finalized                                                          *)
C25_Witness ==
    /\ resp = [op |-> "update_work_order", id |-> 1, status |-> OK]
    /\ 1 \in DOMAIN work_orders
    /\ work_orders[1].is_finalized
    /\ work_orders[1].status = "DRAFT"
    /\ work_orders[1].updated_at = 4

(* only a successful movement on item i changes the current_stock of i *)
StockChangesByMovementOnly ==
    \A i \in DOMAIN inventory_items :
        inventory_items'[i].current_stock # inventory_items[i].current_stock
        => resp' = [op |-> "create_inventory_movement", id |-> i,
                    status |-> OK]

(* C30 as stated: once an item exists only a successful movement changes    *)
(* its current_stock (item update and soft-delete leave it), and            *)
(* soft-delete keeps the item record and every movement record and changes  *)
(* nothing of the item but active, which it sets to false.                  *)
C30_SoftDeleteOnlyActive ==
    [][/\ DOMAIN inventory_items \subseteq DOMAIN inventory_items'
       /\ StockChangesByMovementOnly
       /\ \A id \in DOMAIN inventory_items :
              delete_inventory_item(id)
              => /\ inventory_movements' = inventory_movements
                 /\ inventory_items' =
                        [inventory_items EXCEPT ![id].active = FALSE]]_vars

(* C30, amended: once an item exists only a successful movement changes     *)
(* its current_stock (item update and soft-delete leave it), and            *)
(* soft-delete keeps the item record and every movement record, setting     *)
(* active to false and refreshing updated_at, and nothing else.             *)
C30_SoftDeleteFrame ==
    [][/\ DOMAIN inventory_items \subseteq DOMAIN inventory_items'
       /\ StockChangesByMovementOnly
       /\ \A id \in DOMAIN inventory_items :
              delete_inventory_item(id)
              => /\ inventory_movements' = inventory_movements
                 /\ inventory_items' =
                        [inventory_items EXCEPT ![id].active = FALSE,
                                                ![id].updated_at = now]]_vars

(* an item whose stock a movement raised above 0 has just been              *)
(* soft-deleted: it is inactive, and its stock is still the stock_after of  *)
(* its latest movement                                                      *)
C30_Witness ==
    /\ resp.op = "delete_inventory_item"
    /\ resp.status = OK
    /\ ~inventory_items[resp.id].active
    /\ inventory_items[resp.id].current_stock > 0
    /\ Len(inventory_movements) > 0
    /\ inventory_movements[Len(inventory_movements)].item_id = resp.id
    /\ inventory_movements[Len(inventory_movements)].stock_after
           = inventory_items[resp.id].current_stock
    /\ inventory_movements[Len(inventory_movements)].stock_before
           # inventory_items[resp.id].current_stock

(* C26: on the parts stock path, with POST /stock-movements requests        *)
(* executed one at a time on parts that start at stock_quantity 0, no       *)
(* part's stock_quantity is ever negative.                                  *)
C26_PartStockNonNegative ==
    \A id \in DOMAIN parts : parts[id].stock_quantity >= 0

(* every part references an existing part type and an existing supplier *)
PartsReferToExisting(db) ==
    \A i \in DOMAIN db :
        /\ db[i].part_type_id \in DOMAIN part_types'
        /\ db[i].supplier_id \in DOMAIN suppliers'

(* C28: with part-type, supplier and part requests executed one at a time,  *)
(* every existing part's part_type_id and supplier_id reference an          *)
(* existing part type and an existing supplier, and the delete of a part    *)
(* type or supplier that a part still references answers 400 and deletes    *)
(* nothing.                                                                 *)
C28_PartsReferentialIntegrity ==
    [][/\ PartsReferToExisting(parts')
       /\ resp'.op = "delete_part_type"
          => \A id \in PartUuids :
                 ((\E i \in DOMAIN parts : parts[i].part_type_id = id)
                  /\ delete_part_type(id))
                 => /\ resp'.status = BadRequest
                    /\ UNCHANGED <<part_types, suppliers, parts>>
       /\ resp'.op = "delete_supplier"
          => \A id \in PartUuids :
                 ((\E i \in DOMAIN parts : parts[i].supplier_id = id)
                  /\ delete_supplier(id))
                 => /\ resp'.status = BadRequest
                    /\ UNCHANGED <<part_types, suppliers, parts>>]_vars

(* a part was moved to a second part type by an Update, and the delete of   *)
(* that part type has just been refused                                     *)
C28_Witness ==
    \E i \in DOMAIN parts :
        /\ parts[i].part_type_id # 1
        /\ parts[i].updated_at > parts[i].created_at
        /\ resp = [op |-> "delete_part_type", id |-> parts[i].part_type_id,
                   status |-> BadRequest]
        /\ parts[i].part_type_id \in DOMAIN part_types
        /\ parts[i].supplier_id \in DOMAIN suppliers

(* C23: renumbering is not safe against a concurrent Create. Each update    *)
(* of the renumbering pass writes its loop index to the order it took from  *)
(* the snapshot and to no other order, so a work order that a Create        *)
(* inserts after the snapshot keeps the work_sequence that Create read      *)
(* before; a quiescent state whose sequences are not dense is reached this  *)
(* way (C23_Witness).                                                       *)
C23_RenumberingMissesCreate ==
    [][\A p \in Procs :
           RecalcUpdate(p)
           => \A i \in DOMAIN work_orders :
                  IF i = reqs[p].list[reqs[p].index]
                  THEN work_orders'[i].work_sequence = reqs[p].index
                  ELSE work_orders'[i] = work_orders[i]]_vars

(* quiescent: order 1 was deleted, the pass renumbered order 2 to 1, and    *)
(* order 3, inserted by a Create that had read the maximum 2, holds         *)
(* sequence 3 and was never renumbered: 1, 3 is not dense                   *)
C23_Witness ==
    /\ reqs = NoDocuments
    /\ DOMAIN work_orders = {2, 3}
    /\ work_orders[2].work_sequence = 1
    /\ work_orders[2].updated_at > work_orders[2].created_at
    /\ work_orders[3].work_sequence = 3
    /\ work_orders[3].updated_at = work_orders[3].created_at
    /\ ~Dense(work_orders)

(* Request p, an OUT about to write the item, passed its check against the  *)
(* same current_stock as the OUT recorded at place k of the ledger, whose   *)
(* write is the item's current stock; together they take out more than      *)
(* that stock held.                                                         *)
StaleOut(p, k) ==
    /\ At(p, "movement", "update_one")
    /\ k \in 1..Len(inventory_movements)
    /\ k # reqs[p].index
    /\ reqs[p].movement_type = "OUT"
    /\ reqs[p].quantity > 0
    /\ inventory_movements[k].item_id = reqs[p].item_id
    /\ inventory_movements[k].movement_type = "OUT"
    /\ inventory_movements[k].quantity < 0
    /\ inventory_movements[k].stock_before = reqs[p].stock_before
    /\ inventory_movements[k].stock_after
           = inventory_items[reqs[p].item_id].current_stock
    /\ reqs[p].stock_before + inventory_movements[k].quantity
           - reqs[p].quantity < 0

(* C21 as stated: when two OUT movements against the same item both passed  *)
(* the sufficiency check against the same stale current_stock although      *)
(* their combined quantity exceeds it, the write of the second leaves the   *)
(* item's current_stock below zero.                                         *)
C21_JointOverdrawBelowZero ==
    [][\A p \in Procs, k \in 1..Len(inventory_movements) :
           (StaleOut(p, k) /\ MovementUpdate(p))
           => inventory_items'[reqs[p].item_id].current_stock < 0]_vars

(* C21, amended: two interleaved OUT movements against the same item can    *)
(* both pass the sufficiency check against the same stale current_stock     *)
(* although their combined quantity exceeds it; the second write then       *)
(* replaces the first (a lost update): current_stock becomes the stale      *)
(* stock minus the second quantity alone, which is not below zero, while    *)
(* the two recorded movements together take out more than the stock held.   *)
C21_StaleCheckLostUpdate ==
    [][\A p \in Procs, k \in 1..Len(inventory_movements) :
           (StaleOut(p, k) /\ MovementUpdate(p))
           => LET after == inventory_items'[reqs[p].item_id].current_stock
              IN  /\ after = reqs[p].stock_before - reqs[p].quantity
                  /\ after >= 0
                  /\ after = inventory_movements[reqs[p].index].stock_after
                  /\ after > reqs[p].stock_before
                             + inventory_movements[k].quantity
                             - reqs[p].quantity]_vars

(* quiescent, after two OUT movements on item 1 that each inserted and      *)
(* updated (four ticks): both records carry the same stock_before, their    *)
(* quantities add up to more than it, and the item holds the stock_after    *)
(* of the second writer, not below zero                                     *)
C21_Witness ==
    /\ reqs = NoDocuments
    /\ now = 6
    /\ Len(inventory_movements) = 2
    /\ \A k \in {1, 2} :
           /\ inventory_movements[k].item_id = 1
           /\ inventory_movements[k].movement_type = "OUT"
           /\ inventory_movements[k].stock_before = MaxQty
    /\ inventory_movements[1].quantity + inventory_movements[2].quantity
           < -MaxQty
    /\ inventory_items[1].current_stock >= 0
    /\ \E k \in {1, 2} :
           inventory_items[1].current_stock
               = inventory_movements[k].stock_after

(* C24: no rollback for the two-write movement. When the item update of a   *)
(* movement fails after its record was appended, the record stays in the    *)
(* ledger and the item is left as it was: if no other request wrote the     *)
(* item meanwhile, current_stock still equals the record's stock_before     *)
(* and, for a non-zero quantity, differs from its stock_after. No step      *)
(* ever removes or rewrites a record.                                       *)
C24_NoRollback ==
    [][/\ Len(inventory_movements') >= Len(inventory_movements)
       /\ \A k \in 1..Len(inventory_movements) :
              inventory_movements'[k] = inventory_movements[k]
       /\ \A p \in Procs :
              MovementUpdateFails(p)
              => LET m == inventory_movements'[reqs[p].index]
                     stock == inventory_items'[reqs[p].item_id].current_stock
                 IN  /\ resp'.status = InternalServerError
                     /\ inventory_items' = inventory_items
                     /\ m.item_id = reqs[p].item_id
                     /\ m.stock_before = reqs[p].stock_before
                     /\ (stock = m.stock_before /\ m.quantity # 0)
                        => m.stock_after # stock]_vars

(* quiescent after a single movement whose item update failed: the ledger   *)
(* holds its record, and the item's stock is the record's stock_before,     *)
(* not its stock_after                                                      *)
C24_Witness ==
    /\ reqs = NoDocuments
    /\ resp = [op |-> "create_inventory_movement", id |-> 1,
               status |-> InternalServerError]
    /\ Len(inventory_movements) = 1
    /\ inventory_movements[1].item_id = 1
    /\ inventory_movements[1].quantity # 0
    /\ inventory_items[1].current_stock = inventory_movements[1].stock_before
    /\ inventory_items[1].current_stock # inventory_movements[1].stock_after
    /\ inventory_items[1].updated_at = inventory_items[1].created_at

(* C27: no orphan stock movements. In every quiescent state, under any      *)
(* interleaving of create_stock_movement and delete_part requests (each     *)
(* database call atomic), every stored stock-movement record references a   *)
(* part that still exists.                                                  *)
C27_NoOrphanStockMovements ==
    reqs = NoDocuments
    => \A k \in 1..Len(stock_movements) :
           stock_movements[k].part_id \in DOMAIN parts

====
